---- MODULE Spec2Model ----
(***************************************************************************)
(* The serving core of the inference server: the model cache               *)
(* (workers/app/model_manager.py), the per-model micro-batching scheduler  *)
(* (workers/app/batch.py) and the request handlers that drive them         *)
(* (workers/app/main.py).                                                  *)
(*                                                                         *)
(* Every handler is an `async def` that runs on one asyncio event loop, so *)
(* the code between two suspension points is one atomic step.  The only    *)
(* long blocking stretch is the artifact download and deserialization in   *)
(* ModelManager.load_model, which runs with the cache lock held: it is the *)
(* one place where a call is split in two steps (enter / finish).          *)
(***************************************************************************)
EXTENDS Integers, Sequences, FiniteSets, TLC

----------------------------------------------------------------------------
(* Bounds of the model *)

\* concurrent HTTP request tasks
NumTasks == 2
\* _process_batch tasks alive at the same time, per BatchProcessor
MaxDrainers == 2
\* MAX_MODELS_IN_MEMORY, the capacity C of the cache
max_models == 2

(* Program constants *)

\* DEFAULT_BATCH_SIZE
DEFAULT_BATCH_SIZE == 32
\* DEFAULT_BATCH_WAIT_MS
DEFAULT_BATCH_WAIT_MS == 50

Tasks == 1..NumTasks

\* keys with a record in model_metadata
Registered == {"a", "b", "c"}
\* every (model_name, version) a request can name; "x" has no registry record
Keys == Registered \cup {"x"}
\* feature vectors a request can carry
Features == {0, 1}
\* (batch_size, batch_wait_ms) pairs a load request can carry
BatchConfigs ==
  { [size |-> 1, wait |-> 0],
    [size |-> DEFAULT_BATCH_SIZE, wait |-> DEFAULT_BATCH_WAIT_MS] }
\* variant: the auto-load uses the smallest batch configuration
SmallConfig == [size |-> 1, wait |-> 0]
\* the configuration of the auto-load
DefaultConfig == [size |-> DEFAULT_BATCH_SIZE, wait |-> DEFAULT_BATCH_WAIT_MS]
\* how the download + joblib.load of a registered key can end
LoadOutcomes == {"ok", "S3Error", "ValueError"}
\* how model.predict on a batch can end
PredictOutcomes == {"ok", "ValueError", "RuntimeError"}

VARIABLES
  cache,         \* ModelManager._cache: the OrderedDict as the sequence of its entries, oldest
                 \* first; an entry holds its key and its BatchProcessor
  orphans,       \* the BatchProcessor objects that left the cache with requests still queued
  lock,          \* ModelManager._lock: 0 when free, else the task holding it
  task,          \* the request tasks: where each one is in its handler
  future,        \* the asyncio.Future each predict request awaits
  last_used_at,  \* for each resident key the rank of its last use (insertion, load hit, predict)
                 \* among the residents, 0 for the other keys
  evicted,       \* the key the last step removed with _evict_lru ("none" if it evicted nothing)
  ret,           \* the response the last step sent, if it sent one
  logger,        \* prediction_logger: its queue, the log() calls suspended in queue.put, its
                 \* worker_task handle, every _worker task created so far and the number of
                 \* log() calls made
  prediction_logs,  \* the rows of the prediction_logs table
  flushes        \* every _flush_batch call so far: the worker, the batch, how it ended

\* the prediction-log pipeline
logvars == <<logger, prediction_logs, flushes>>

vars == <<cache, orphans, lock, task, future, last_used_at, evicted, ret, logger,
          prediction_logs, flushes>>

----------------------------------------------------------------------------
(* Values *)

NoConfig == [size |-> 0, wait |-> 0]
IdleTask == [pc |-> "idle", key |-> "none", feat |-> 0, cfg |-> NoConfig, overlap |-> FALSE]
\* a future: its state, its result or exception, and the size of the batch that completed it
NoFuture == [st |-> "none", val |-> 0, exc |-> "none", n |-> 0]
PendingFuture == [st |-> "pending", val |-> 0, exc |-> "none", n |-> 0]
NoRet ==
  [op |-> "none", key |-> "none", status |-> "none", code |-> 0,
   cache_size |-> -1, prediction |-> -1, downloads |-> 0, overlap |-> FALSE,
   cfg |-> NoConfig]

\* a response: the call it answers, its status and HTTP code, the cache_size and prediction
\* fields when the body has them (-1 when not), how many times the call ran
\* storage.download_model, whether the call was made while another task was loading the
\* same key, and the batch configuration the request carried
Response(op, k, status, code, size, pred, dl, ov, cfg) ==
  [op |-> op, key |-> k, status |-> status, code |-> code,
   cache_size |-> size, prediction |-> pred, downloads |-> dl, overlap |-> ov, cfg |-> cfg]

----------------------------------------------------------------------------
(* The predictor: model.predict(features_batch) of a deserialized artifact *)

\* the numpy values model.predict returns are modelled in tenths
Scale == 10
\* the value each artifact gives for one row: "a" is a classifier of whole classes, "b" and
\* "c" return fractional values (1.5 or 0.5, and -0.5)
Class(m, f) == IF m = "a" THEN Scale * f ELSE IF m = "b" THEN 15 - Scale * f ELSE -5
\* model.predict(X): one value per row of X
ModelPredict(m, X) == [i \in 1..Len(X) |-> Class(m, X[i])]
\* int(prediction): truncation toward zero
ToInt(x) == IF x >= 0 THEN x \div Scale ELSE -((-x) \div Scale)

----------------------------------------------------------------------------
(* BatchProcessor *)

\* BatchProcessor.__init__; created and sleeping count its _process_batch tasks that
\* create_task has scheduled and that are in their asyncio.sleep; inflight holds the
\* `batch` lists of its tasks that have detached a batch and not reached their end
NewProc(m, cfg) ==
  [model |-> m, max_batch_size |-> cfg.size, max_wait_ms |-> cfg.wait, queue |-> <<>>,
   processing |-> FALSE, created |-> 0, sleeping |-> 0, inflight |-> <<>>]

\* BatchProcessor.predict up to `await future`: enqueue, start a drainer unless one is processing
Submit(pr, f, t) ==
  [pr EXCEPT !.queue = Append(@, [features |-> f, future |-> t]),
             !.created = IF pr.processing THEN @ ELSE @ + 1]

\* variant: the whole queue is taken as the batch
BatchSizeAll(pr) == Len(pr.queue)

\* `batch_size = min(len(self.queue), self.max_batch_size)`
BatchSize(pr) ==
  IF Len(pr.queue) < pr.max_batch_size THEN Len(pr.queue) ELSE pr.max_batch_size

\* variant: the batch is read from the queue without popleft
RestKeepsAll(pr) == pr.queue

\* `batch = [self.queue.popleft() for _ in range(batch_size)]`
Batch(pr) == SubSeq(pr.queue, 1, BatchSize(pr))
Rest(pr) == SubSeq(pr.queue, BatchSize(pr) + 1, Len(pr.queue))

\* `features_list = [item[0] for item in batch]`
FeaturesList(batch) == [i \in 1..Len(batch) |-> batch[i].features]

\* variant: the rows paired with the futures in reverse order
SlotOfReversed(batch, i) == batch[Len(batch) + 1 - i].future

\* the future that zip(futures_list, predictions) pairs with row i
SlotOf(batch, i) == batch[i].future

\* variant: an exception of model.predict is set on every pending future, not only on
\* those of the batch
DeliverErrorToAll(fut, batch, predictions, outcome) ==
  [t \in Tasks |->
     IF fut[t].st = "pending" /\ outcome # "ok"
       THEN [st |-> "exception", val |-> 0, exc |-> outcome, n |-> Len(batch)]
       ELSE IF \E i \in 1..Len(batch) : batch[i].future = t /\ fut[t].st = "pending"
         THEN LET i == CHOOSE i \in 1..Len(batch) : batch[i].future = t
              IN  [st |-> "result", val |-> ToInt(predictions[i]), exc |-> "none",
                   n |-> Len(batch)]
         ELSE fut[t]]

\* variant: the results are set without the `if not future.done()` test
DeliverOverCancelled(fut, batch, predictions, outcome) ==
  [t \in Tasks |->
     IF \E i \in 1..Len(batch) : batch[i].future = t
       THEN LET i == CHOOSE i \in 1..Len(batch) : batch[i].future = t
            IN  IF outcome = "ok"
                  THEN [st |-> "result", val |-> ToInt(predictions[i]), exc |-> "none",
                        n |-> Len(batch)]
                  ELSE [st |-> "exception", val |-> 0, exc |-> outcome, n |-> Len(batch)]
       ELSE fut[t]]

\* `for future, prediction in zip(futures_list, predictions): future.set_result(int(prediction))`
\* and, when model.predict raised, `future.set_exception(e)`; both under `if not future.done()`
Deliver(fut, batch, predictions, outcome) ==
  [t \in Tasks |->
     IF \E i \in 1..Len(batch) : SlotOf(batch, i) = t /\ fut[t].st = "pending"
       THEN LET i == CHOOSE i \in 1..Len(batch) : SlotOf(batch, i) = t
            IN  IF outcome = "ok"
                  THEN [st |-> "result", val |-> ToInt(predictions[i]), exc |-> "none",
                        n |-> Len(batch)]
                  ELSE [st |-> "exception", val |-> 0, exc |-> outcome, n |-> Len(batch)]
       ELSE fut[t]]

\* the task starts: `self.processing = True`, then it sleeps max_wait_ms
Started(pr) ==
  [pr EXCEPT !.created = @ - 1, !.sleeping = @ + 1, !.processing = TRUE]

\* the task wakes: it exits on an empty queue, else detaches a batch, calls model.predict,
\* completes the futures, clears the flag and starts a successor if requests are left
Woken(pr) ==
  IF pr.queue = <<>>
    THEN [pr EXCEPT !.processing = FALSE, !.sleeping = @ - 1]
    ELSE [pr EXCEPT !.queue = Rest(pr), !.processing = FALSE, !.sleeping = @ - 1,
                    !.created = IF Rest(pr) # <<>> THEN @ + 1 ELSE @]
Completed(pr, fut, outcome) ==
  IF pr.queue = <<>>
    THEN fut
    ELSE Deliver(fut, Batch(pr), ModelPredict(pr.model, FeaturesList(Batch(pr))), outcome)

Drainers(pr) == pr.created + pr.sleeping

\* the two halves of a task that wakes: up to the detached batch (or the exit on an empty
\* queue), and from model.predict on the oldest detached batch to the end of the task
Detached(pr) ==
  IF pr.queue = <<>>
    THEN [pr EXCEPT !.processing = FALSE, !.sleeping = @ - 1]
    ELSE [pr EXCEPT !.queue = Rest(pr), !.sleeping = @ - 1,
                    !.inflight = Append(@, Batch(pr))]
\* variant: a task that ends with requests still queued starts no successor
FinishedNoSuccessor(pr) == [pr EXCEPT !.inflight = Tail(@), !.processing = FALSE]

Finished(pr) ==
  [pr EXCEPT !.inflight = Tail(@), !.processing = FALSE,
             !.created = IF pr.queue # <<>> THEN @ + 1 ELSE @]

----------------------------------------------------------------------------
(* ModelManager: the OrderedDict *)

CacheKeys(c) == [i \in 1..Len(c) |-> c[i].key]
InCache(c, k) == \E i \in 1..Len(c) : c[i].key = k
IndexOf(c, k) == CHOOSE i \in 1..Len(c) : c[i].key = k
Entry(c, k) == c[IndexOf(c, k)]
Without(c, k) == SelectSeq(c, LAMBDA e : e.key # k)

\* variant: a lookup that leaves the order alone
_leave_in_place(c, k) == c

\* OrderedDict.move_to_end under `if key in self._cache`
_move_to_end(c, k) ==
  IF InCache(c, k) THEN Append(Without(c, k), Entry(c, k)) ELSE c

\* variant: popitem(last=True), the newest entry goes
_evict_mru(c) == IF c = <<>> THEN c ELSE SubSeq(c, 1, Len(c) - 1)

\* popitem(last=False) under `if not self._cache: return`
_evict_lru(c) == IF c = <<>> THEN c ELSE Tail(c)

\* variant: an insertion that never evicts
MakeRoomNever(c) == c

\* `if len(self._cache) >= self.max_models: self._evict_lru()`
MakeRoom(c) == IF Len(c) >= max_models THEN _evict_lru(c) ELSE c

\* the key _evict_lru removes from c at capacity, "none" when it removes nothing
Evicted(c) == IF Len(c) > Len(MakeRoom(c)) THEN c[1].key ELSE "none"

\* variant: a new key is put at the front of the order
SetItemFirst(c, k, pr) == <<[key |-> k, proc |-> pr]>> \o Without(c, k)

\* `self._cache[key] = (model, batch_processor, {...})`: a new key goes to the end, a key
\* already in the dict keeps its place and gets the new value
SetItem(c, k, pr) ==
  IF InCache(c, k)
    THEN [i \in 1..Len(c) |-> IF c[i].key = k THEN [key |-> k, proc |-> pr] ELSE c[i]]
    ELSE Append(c, [key |-> k, proc |-> pr])

\* BatchProcessor(model, ...), the eviction at capacity, the insertion
Insert(c, k, cfg) == SetItem(MakeRoom(c), k, NewProc(k, cfg))

\* variant: the eviction done before the download, so that a failed load has evicted too
LoadResultEvictFirst(c, k, cfg, outcome) ==
  IF outcome = "ok" THEN Insert(c, k, cfg) ELSE MakeRoom(c)

\* the cache after the download and deserialization of load_model ended with `outcome`:
\* only a successful one reaches the eviction and the insertion
LoadResult(c, k, cfg, outcome) == IF outcome = "ok" THEN Insert(c, k, cfg) ELSE c

\* variant: the pop takes the oldest entry instead of the entry of the key
CachePopFirst(c, k) == Tail(c)

\* self._cache.pop(key)
CachePop(c, k) == Without(c, k)

\* `_, batch_processor, _ = self._cache[key]` and `batch_processor.predict(features)` up to
\* its `await future`
Dispatch(c, k, f, t) ==
  [i \in 1..Len(c) |-> IF c[i].key = k THEN [c[i] EXCEPT !.proc = Submit(@, f, t)] ELSE c[i]]

\* variant: a predict that does not record the use
NoTouch(c, k) == c

\* `self._move_to_end(key)` of ModelManager.predict
Touch(c, k) == _move_to_end(c, k)

\* variant: a miss that already makes room for the model it will load
MMPredictMakingRoom(c, k, f, t) ==
  IF InCache(c, k)
    THEN [status |-> "ok", cache |-> Dispatch(Touch(c, k), k, f, t)]
    ELSE [status |-> "not loaded", cache |-> MakeRoom(c)]

\* ModelManager.predict up to its suspension: the ValueError on a key that is not in the
\* cache, else the touch and the submit
MMPredict(c, k, f, t) ==
  IF InCache(c, k)
    THEN [status |-> "ok", cache |-> Dispatch(Touch(c, k), k, f, t)]
    ELSE [status |-> "not loaded", cache |-> c]

\* variant: a BatchProcessor that leaves the cache is gone with its queue
DroppedNone(c, c2) == {}

\* `del processor`: a BatchProcessor that left the cache lives on while requests are queued
\* in it; with an empty queue no submit can reach it and the _process_batch tasks it still
\* has find nothing and exit
Dropped(c, c2) ==
  {c[i].proc : i \in {j \in 1..Len(c) : ~InCache(c2, c[j].key) /\ c[j].proc.queue # <<>>}}

\* variant: the entry whose BatchProcessor has run a batch leaves the cache
CacheDropping(c, old, new) == SelectSeq(c, LAMBDA e : e.proc # old)

\* the cache and the orphans with BatchProcessor `old` replaced by its next state
CacheWith(c, old, new) ==
  [i \in 1..Len(c) |-> IF c[i].proc = old THEN [c[i] EXCEPT !.proc = new] ELSE c[i]]
OrphansWith(orph, old, new) ==
  IF old \in orph
    THEN (orph \ {old}) \cup (IF new.queue = <<>> THEN {} ELSE {new})
    ELSE orph

AllProcs == {cache[i].proc : i \in 1..Len(cache)} \cup orphans

(* last_used_at: ranks 1..n over the residents, 0 for a key that is not resident *)
Normalise(f) ==
  [k \in Keys |->
     IF f[k] = 0 THEN 0 ELSE Cardinality({j \in Keys : f[j] > 0 /\ f[j] <= f[k]})]
Stamp(f, k) == Normalise([f EXCEPT ![k] = Cardinality(Keys) + 1])
Forget(f, c) == Normalise([k \in Keys |-> IF InCache(c, k) THEN f[k] ELSE 0])

----------------------------------------------------------------------------
(* PredictionLogger (prediction_logger.py) and the prediction_logs table (database.py) *)

\* the log() calls followed
MaxLogs == 3
\* the start() calls followed
MaxStarts == 2
\* _worker's batch_size, the buffer length that forces a flush (100 in the source, scaled)
batch_size == 2
\* _worker's flush_interval, in seconds
flush_interval == 5
\* the timeout of wait_for(self.queue.get()), in seconds
timeout == 1
\* asyncio.Queue(): the queue is built without a maxsize, which is maxsize 0
maxsize == 0

\* how the store can answer bulk_save_objects and commit
StoreOutcomes == {"ok", "OperationalError"}

\* the keys of the dict log() puts on the queue
EntryKeys ==
  {"correlation_id", "model_name", "model_version", "input_features", "prediction",
   "latency_ms", "batch_size", "client_ip", "created_at"}
\* the attributes of the PredictionLog class
Columns ==
  {"id", "model_name", "model_version", "request_id", "latency_ms", "created_at",
   "input_features", "prediction"}
\* PredictionLog(**entry) returns an object: the declarative constructor raises TypeError
\* for a keyword that is not an attribute of the class
Constructs == EntryKeys \subseteq Columns

\* a _worker task at its wait_for: its batch, the seconds since its last_flush (counted up
\* to flush_interval), whether it is still running
NewWorker == [batch |-> <<>>, since |-> 0, alive |-> TRUE]
\* a _worker task that has ended
EndedWorker == [batch |-> <<>>, since |-> 0, alive |-> FALSE]
\* PredictionLogger.__init__
NewLogger ==
  [queue |-> <<>>, putters |-> <<>>, worker_task |-> 0, workers |-> <<>>, logged |-> 0]

InitLogger ==
  /\ logger = NewLogger
  /\ prediction_logs = {}
  /\ flushes = <<>>

\* variant: the queue is built with maxsize 1
full_at_one(q) == Len(q) >= 1

\* asyncio.Queue.full
full(q) == maxsize > 0 /\ Len(q) >= maxsize

\* the _worker tasks still running
Alive(lg) == {w \in 1..Len(lg.workers) : lg.workers[w].alive}

\* how _flush_batch ends when the store answers o: "none" when the rows are committed
FlushError(o) == IF ~Constructs THEN "TypeError" ELSE IF o = "ok" THEN "none" ELSE o

\* one _flush_batch(batch) call of worker w: the batch its bulk-insert block was given and
\* the error the block raised, which _flush_batch catches and logs
FlushEvent(w, batch, o) == [by |-> w, batch |-> batch, error |-> FlushError(o)]

\* the entries of the batches of events ev that were committed
Committed(ev) ==
  UNION {{ev[i].batch[j] : j \in 1..Len(ev[i].batch)} : i \in {n \in 1..Len(ev) :
                                                                  ev[n].error = "none"}}

\* variant: the size trigger fires one entry late
flush_when_over(batch, since) ==
  Len(batch) > batch_size \/ (batch # <<>> /\ since >= flush_interval)

\* should_flush of _worker
should_flush(batch, since) ==
  Len(batch) >= batch_size \/ (batch # <<>> /\ since >= flush_interval)

\* variant: a batch whose flush failed is kept for the next flush
keep_on_error(batch, error) == IF error = "none" THEN <<>> ELSE batch

\* `batch = []` after _flush_batch, which has caught whatever the insert raised
after_flush(batch, error) == <<>>

\* the end of one round of _worker's loop for worker w in local state wk: the flush when
\* should_flush holds
Round(w, wk, o) ==
  IF should_flush(wk.batch, wk.since)
    THEN [worker |-> [wk EXCEPT !.batch = after_flush(wk.batch, FlushError(o)), !.since = 0],
          events |-> <<FlushEvent(w, wk.batch, o)>>]
    ELSE [worker |-> wk, events |-> <<>>]

\* variant: the newest entry leaves the queue
GotLast(lg) == [lg EXCEPT !.queue = SubSeq(@, 1, Len(@) - 1)]

\* queue.get() on a non-empty queue: the oldest entry leaves, and the oldest suspended put
\* goes through
Got(lg) ==
  IF lg.putters = <<>>
    THEN [lg EXCEPT !.queue = Tail(@)]
    ELSE [lg EXCEPT !.queue = Append(Tail(@), Head(lg.putters)), !.putters = Tail(@)]

\* wait_for times out in a worker: a second has passed
TimedOut(wk) ==
  [wk EXCEPT !.since = IF @ + timeout >= flush_interval THEN flush_interval ELSE @ + timeout]

RECURSIVE TimeoutEvents(_, _, _)
\* the flushes of the workers 1..n of ws whose wait_for has timed out, in task order
TimeoutEvents(ws, n, o) ==
  IF n = 0 THEN <<>>
  ELSE TimeoutEvents(ws, n - 1, o) \o
       (IF ws[n].alive THEN Round(n, TimedOut(ws[n]), o).events ELSE <<>>)

----------------------------------------------------------------------------
Init ==
  /\ cache = <<>>
  /\ orphans = {}
  /\ lock = 0
  /\ task = [t \in Tasks |-> IdleTask]
  /\ future = [t \in Tasks |-> NoFuture]
  /\ last_used_at = [k \in Keys |-> 0]
  /\ evicted = "none"
  /\ ret = NoRet
  /\ InitLogger

----------------------------------------------------------------------------
(* POST /models/load: main.load_model -> ModelManager.load_model *)

\* HTTP code of main.load_model for an exception of load_model
LoadErrorCode(e) == IF e = "ValueError" THEN 404 ELSE 500

\* variant: the cache lock is not taken
LockIgnored == TRUE

\* `with self._lock:` can be entered
LockFree == lock = 0

\* variant: the lock stays with its holder when the block is left
StillHeld == lock

\* the lock once the `with self._lock:` block is left, by its end, a return or an exception
Released == 0

\* a load request arrives; its handler has not taken the cache lock yet
LoadCall(t, k) ==
  /\ task[t].pc = "idle"
  /\ task' = [task EXCEPT ![t] =
       [pc |-> "load_wait", key |-> k, feat |-> 0, cfg |-> NoConfig,
        overlap |-> \E u \in Tasks : /\ task[u].pc \in {"downloading", "auto_downloading"}
                                     /\ task[u].key = k]]
  /\ ret' = NoRet
  /\ evicted' = "none"
  /\ UNCHANGED <<cache, orphans, lock, future, last_used_at>>
  /\ UNCHANGED logvars

\* `with self._lock:` up to the download: the cache hit, the registry lookup
LoadEnter(t, cfg) ==
  LET k == task[t].key IN
  /\ task[t].pc = "load_wait"
  /\ LockFree
  /\ IF InCache(cache, k)
       THEN /\ cache' = _move_to_end(cache, k)
            /\ last_used_at' = Stamp(last_used_at, k)
            /\ task' = [task EXCEPT ![t] = IdleTask]
            /\ ret' = Response("load", k, "already_loaded", 200, -1, -1, 0, task[t].overlap, cfg)
            /\ UNCHANGED lock
       ELSE IF k \notin Registered
         THEN /\ task' = [task EXCEPT ![t] = IdleTask]
              /\ ret' = Response("load", k, "ValueError", LoadErrorCode("ValueError"), -1, -1, 0,
                                 task[t].overlap, cfg)
              /\ UNCHANGED <<cache, lock, last_used_at>>
         ELSE /\ lock' = t
              /\ task' = [task EXCEPT ![t].pc = "downloading", ![t].cfg = cfg]
              /\ ret' = NoRet
              /\ UNCHANGED <<cache, last_used_at>>
  /\ evicted' = "none"
  /\ UNCHANGED <<orphans, future>>
  /\ UNCHANGED logvars

\* the rest of load_model: download_model, joblib.load, BatchProcessor(...), eviction, insertion
LoadFinish(t, outcome) ==
  LET k == task[t].key
      c == LoadResult(cache, k, task[t].cfg, outcome)
  IN
  /\ task[t].pc = "downloading"
  /\ cache' = c
  /\ orphans' = orphans \cup Dropped(cache, c)
  /\ evicted' = IF outcome = "ok" THEN Evicted(cache) ELSE "none"
  /\ last_used_at' = IF outcome = "ok" THEN Stamp(Forget(last_used_at, c), k) ELSE last_used_at
  /\ ret' = IF outcome = "ok"
              THEN Response("load", k, "loaded", 200, Len(c), -1, 1, task[t].overlap, task[t].cfg)
              ELSE Response("load", k, outcome, LoadErrorCode(outcome), -1, -1, 1,
                            task[t].overlap, task[t].cfg)
  /\ lock' = Released
  /\ task' = [task EXCEPT ![t] = IdleTask]
  /\ UNCHANGED future
  /\ UNCHANGED logvars

----------------------------------------------------------------------------
(* POST /models/unload: main.unload_model -> ModelManager.unload_model *)

Unload(k) ==
  /\ LockFree
  /\ IF InCache(cache, k)
       THEN LET c == CachePop(cache, k) IN
            /\ cache' = c
            /\ orphans' = orphans \cup Dropped(cache, c)
            /\ last_used_at' = Forget(last_used_at, c)
            /\ ret' = Response("unload", k, "unloaded", 200, Len(c), -1, 0, FALSE, NoConfig)
       ELSE /\ ret' = Response("unload", k, "not_loaded", 200, -1, -1, 0, FALSE, NoConfig)
            /\ UNCHANGED <<cache, orphans, last_used_at>>
  /\ evicted' = "none"
  /\ UNCHANGED <<lock, task, future>>
  /\ UNCHANGED logvars

----------------------------------------------------------------------------
(* POST /models/{name}/versions/{version}/predict: main.predict -> ModelManager.predict *)

\* HTTP code of main.predict for an exception that reaches its outer handlers
PredictErrorCode(e) == IF e = "ValueError" THEN 404 ELSE 500

\* the handler up to its first suspension: ModelManager.predict; on a hit the request is
\* queued and the handler awaits its future; on a miss the handler catches the ValueError
\* and calls load_model, which fails on an unregistered key and else starts the download
Predict(t, k, f) ==
  LET r == MMPredict(cache, k, f, t) IN
  /\ task[t].pc = "idle"
  /\ LockFree
  /\ cache' = r.cache
  /\ IF r.status = "ok"
       THEN LET pr == Entry(cache, k).proc IN
            /\ pr.processing \/ Drainers(pr) < MaxDrainers
            /\ last_used_at' = Stamp(last_used_at, k)
            /\ future' = [future EXCEPT ![t] = PendingFuture]
            /\ task' = [task EXCEPT ![t] =
                 [pc |-> "await", key |-> k, feat |-> f, cfg |-> NoConfig, overlap |-> FALSE]]
            /\ ret' = NoRet
            /\ UNCHANGED lock
       ELSE IF k \notin Registered
         THEN /\ ret' = Response("predict", k, "ValueError", PredictErrorCode("ValueError"),
                                 -1, -1, 0, FALSE, NoConfig)
              /\ UNCHANGED <<lock, task, future, last_used_at>>
         ELSE /\ lock' = t
              /\ task' = [task EXCEPT ![t] =
                   [pc |-> "auto_downloading", key |-> k, feat |-> f, cfg |-> DefaultConfig,
                    overlap |-> FALSE]]
              /\ ret' = NoRet
              /\ UNCHANGED <<future, last_used_at>>
  /\ evicted' = "none"
  /\ UNCHANGED orphans
  /\ UNCHANGED logvars

\* the auto-load's download ends; on success the handler goes straight on to its second
\* ModelManager.predict (no suspension point in between)
AutoLoadFinish(t, outcome) ==
  LET k == task[t].key
      c == LoadResult(cache, k, task[t].cfg, outcome)
      r == MMPredict(c, k, task[t].feat, t)
  IN
  /\ task[t].pc = "auto_downloading"
  /\ IF outcome = "ok"
       THEN /\ cache' = r.cache
            /\ IF r.status = "ok"
                 THEN /\ future' = [future EXCEPT ![t] = PendingFuture]
                      /\ task' = [task EXCEPT ![t].pc = "await"]
                      /\ ret' = NoRet
                 ELSE /\ task' = [task EXCEPT ![t] = IdleTask]
                      /\ ret' = Response("predict", k, "ValueError",
                                         PredictErrorCode("ValueError"), -1, -1, 1, FALSE, NoConfig)
                      /\ UNCHANGED future
            /\ evicted' = Evicted(cache)
            /\ last_used_at' = Stamp(Forget(last_used_at, c), k)
       ELSE /\ cache' = c
            /\ task' = [task EXCEPT ![t] = IdleTask]
            /\ ret' = Response("predict", k, outcome, PredictErrorCode(outcome), -1, -1, 1,
                               FALSE, NoConfig)
            /\ evicted' = "none"
            /\ UNCHANGED <<future, last_used_at>>
  /\ orphans' = orphans \cup Dropped(cache, c)
  /\ lock' = Released
  /\ UNCHANGED logvars

\* the future is done: `result = await future` returns or raises, and the handler answers;
\* a request that went through the auto-load still carries the configuration it loaded with;
\* the put of a successful request on the logger's queue is followed in SpecLog (LogCall)
PredictReturn(t) ==
  LET dl == IF task[t].cfg = NoConfig THEN 0 ELSE 1 IN
  /\ task[t].pc = "await"
  /\ future[t].st \in {"result", "exception"}
  /\ ret' = IF future[t].st = "result"
              THEN Response("predict", task[t].key, "ok", 200, -1, future[t].val, dl, FALSE,
                            NoConfig)
              ELSE Response("predict", task[t].key, future[t].exc,
                            PredictErrorCode(future[t].exc), -1, -1, dl, FALSE, NoConfig)
  /\ task' = [task EXCEPT ![t] = IdleTask]
  /\ future' = [future EXCEPT ![t] = NoFuture]
  /\ evicted' = "none"
  /\ UNCHANGED <<cache, orphans, lock, last_used_at>>
  /\ UNCHANGED logvars

----------------------------------------------------------------------------
(* BatchProcessor._process_batch: one task per asyncio.create_task(self._process_batch()) *)

\* a _process_batch task of BatchProcessor pr runs up to its asyncio.sleep
DrainerStart(pr) ==
  /\ pr.created > 0
  /\ cache' = CacheWith(cache, pr, Started(pr))
  /\ orphans' = OrphansWith(orphans, pr, Started(pr))
  /\ ret' = NoRet
  /\ evicted' = "none"
  /\ UNCHANGED <<lock, task, future, last_used_at>>
  /\ UNCHANGED logvars

\* a sleeping _process_batch task of pr wakes and runs to its end
DrainerRun(pr, outcome) ==
  /\ pr.sleeping > 0
  /\ pr.queue = <<>> => outcome = "ok"
  /\ future' = Completed(pr, future, outcome)
  /\ cache' = CacheWith(cache, pr, Woken(pr))
  /\ orphans' = OrphansWith(orphans, pr, Woken(pr))
  /\ ret' = NoRet
  /\ evicted' = "none"
  /\ UNCHANGED <<lock, task, last_used_at>>
  /\ UNCHANGED logvars

\* one _process_batch task from its start to its end, with nothing else running while it
\* sleeps
ProcessBatch(pr, outcome) ==
  /\ pr.created > 0
  /\ pr.queue = <<>> => outcome = "ok"
  /\ future' = Completed(Started(pr), future, outcome)
  /\ cache' = CacheWith(cache, pr, Woken(Started(pr)))
  /\ orphans' = OrphansWith(orphans, pr, Woken(Started(pr)))
  /\ ret' = NoRet
  /\ evicted' = "none"
  /\ UNCHANGED <<lock, task, last_used_at>>
  /\ UNCHANGED logvars

\* variant: the predictor call is a suspension point, other tasks run during it
LoopShared == TRUE

\* the event loop is not inside a _process_batch task between its detached batch and its
\* end: that stretch has no await, so no other task runs during it
LoopFree == \A pr \in AllProcs : pr.inflight = <<>>

\* a sleeping _process_batch task of pr wakes and detaches its batch
DrainerDetach(pr) ==
  /\ pr.sleeping > 0
  /\ cache' = CacheWith(cache, pr, Detached(pr))
  /\ orphans' = OrphansWith(orphans, pr, Detached(pr))
  /\ ret' = NoRet
  /\ evicted' = "none"
  /\ UNCHANGED <<lock, task, future, last_used_at>>
  /\ UNCHANGED logvars

\* the task goes on with its batch: model.predict, the futures, the flag, the successor
DrainerComplete(pr, outcome) ==
  /\ pr.inflight # <<>>
  /\ future' = Deliver(future, Head(pr.inflight),
                       ModelPredict(pr.model, FeaturesList(Head(pr.inflight))), outcome)
  /\ cache' = CacheWith(cache, pr, Finished(pr))
  /\ orphans' = OrphansWith(orphans, pr, Finished(pr))
  /\ ret' = NoRet
  /\ evicted' = "none"
  /\ UNCHANGED <<lock, task, last_used_at>>
  /\ UNCHANGED logvars

----------------------------------------------------------------------------
(* Spec: the cache and the handlers; every _process_batch task runs in one step.      *)
(* SpecBatch: one resident model and its BatchProcessor, with the _process_batch      *)
(* tasks interleaved step by step with the submits.                                   *)

Next ==
  \/ \E t \in Tasks, k \in Keys : LoadCall(t, k)
  \/ \E t \in Tasks, cfg \in BatchConfigs : LoadEnter(t, cfg)
  \/ \E t \in Tasks, o \in LoadOutcomes : LoadFinish(t, o)
  \/ \E k \in Keys : Unload(k)
  \/ \E t \in Tasks, k \in Keys : Predict(t, k, 0)
  \/ \E t \in Tasks, o \in LoadOutcomes : AutoLoadFinish(t, o)
  \/ \E t \in Tasks : PredictReturn(t)
  \/ \E pr \in AllProcs, o \in PredictOutcomes : ProcessBatch(pr, o)

Spec == Init /\ [][Next]_vars

\* the state after load_model("a", cfg) on the empty cache
InitBatch ==
  /\ \E cfg \in BatchConfigs : cache = Insert(<<>>, "a", cfg)
  /\ orphans = {}
  /\ lock = 0
  /\ task = [t \in Tasks |-> IdleTask]
  /\ future = [t \in Tasks |-> NoFuture]
  /\ last_used_at = Stamp([k \in Keys |-> 0], "a")
  /\ evicted = "none"
  /\ ret = NoRet
  /\ InitLogger

NextBatch ==
  \/ \E t \in Tasks, f \in Features : Predict(t, "a", f)
  \/ \E t \in Tasks : PredictReturn(t)
  \/ \E pr \in AllProcs : DrainerStart(pr)
  \/ \E pr \in AllProcs, o \in PredictOutcomes : DrainerRun(pr, o)

SpecBatch == InitBatch /\ [][NextBatch]_vars

\* SpecFlight: one BatchProcessor, each request task submitting once, the _process_batch
\* tasks in three steps (start, detach, completion)
NextFlight ==
  \/ \E t \in Tasks, f \in Features : LoopFree /\ Predict(t, "a", f)
  \/ \E pr \in AllProcs : LoopFree /\ DrainerStart(pr)
  \/ \E pr \in AllProcs : LoopFree /\ DrainerDetach(pr)
  \/ \E pr \in AllProcs, o \in PredictOutcomes : DrainerComplete(pr, o)

SpecFlight == InitBatch /\ [][NextFlight]_vars

----------------------------------------------------------------------------
(* The prediction-log pipeline: start() and stop() of the application's startup and     *)
(* shutdown events, log() at the end of a successful predict request, the _worker tasks *)

\* PredictionLogger.start
Start ==
  /\ Len(logger.workers) < MaxStarts
  /\ logger' = [logger EXCEPT !.workers = Append(@, NewWorker),
                              !.worker_task = Len(logger.workers) + 1]
  /\ ret' = Response("start", "none", "ok", 0, -1, -1, 0, FALSE, NoConfig)
  /\ evicted' = "none"
  /\ UNCHANGED <<cache, orphans, lock, task, future, last_used_at, prediction_logs, flushes>>

\* PredictionLogger.stop: the task in worker_task is cancelled at its wait_for, flushes its
\* batch in its CancelledError handler and ends; stop() returns
Stop(o) ==
  LET w == logger.worker_task
      ev == IF w # 0 /\ logger.workers[w].alive /\ logger.workers[w].batch # <<>>
              THEN <<FlushEvent(w, logger.workers[w].batch, o)>>
              ELSE <<>>
  IN
  /\ logger' = IF w = 0 THEN logger ELSE [logger EXCEPT !.workers[w] = EndedWorker]
  /\ flushes' = flushes \o ev
  /\ prediction_logs' = prediction_logs \cup Committed(ev)
  /\ ret' = Response("stop", "none", "ok", 0, -1, -1, 0, FALSE, NoConfig)
  /\ evicted' = "none"
  /\ UNCHANGED <<cache, orphans, lock, task, future, last_used_at>>

\* the end of main.predict for a request of key k whose prediction p has come back: log()
\* builds the entry under the request's correlation id and puts it on the queue, then the
\* handler answers
LogCall(k, p) ==
  LET entry == logger.logged + 1 IN
  /\ logger.logged < MaxLogs
  /\ IF full(logger.queue)
       THEN /\ logger' = [logger EXCEPT !.putters = Append(@, entry), !.logged = entry]
            /\ ret' = NoRet
       ELSE /\ logger' = [logger EXCEPT !.queue = Append(@, entry), !.logged = entry]
            /\ ret' = Response("predict", k, "ok", 200, -1, p, 0, FALSE, NoConfig)
  /\ evicted' = "none"
  /\ UNCHANGED <<cache, orphans, lock, task, future, last_used_at, prediction_logs, flushes>>

\* one round of worker w's loop in which queue.get() returns an entry
WorkerGet(w, o) ==
  /\ w \in Alive(logger)
  /\ logger.queue # <<>>
  /\ LET wk == [logger.workers[w] EXCEPT !.batch = Append(@, Head(logger.queue))]
         r == Round(w, wk, o)
     IN
     /\ logger' = [Got(logger) EXCEPT !.workers[w] = r.worker]
     /\ flushes' = flushes \o r.events
     /\ prediction_logs' = prediction_logs \cup Committed(r.events)
  /\ ret' = NoRet
  /\ evicted' = "none"
  /\ UNCHANGED <<cache, orphans, lock, task, future, last_used_at>>

\* a second passes with the queue empty: wait_for times out in every running worker, and
\* each goes through the rest of its round
Tick(o) ==
  LET ev == TimeoutEvents(logger.workers, Len(logger.workers), o) IN
  /\ Alive(logger) # {}
  /\ logger.queue = <<>>
  /\ logger' = [logger EXCEPT !.workers =
       [w \in 1..Len(logger.workers) |->
          IF logger.workers[w].alive THEN Round(w, TimedOut(logger.workers[w]), o).worker
                                     ELSE logger.workers[w]]]
  /\ flushes' = flushes \o ev
  /\ prediction_logs' = prediction_logs \cup Committed(ev)
  /\ ret' = NoRet
  /\ evicted' = "none"
  /\ UNCHANGED <<cache, orphans, lock, task, future, last_used_at>>

NextLog ==
  \/ Start
  \/ \E o \in StoreOutcomes : Stop(o)
  \/ \E p \in Features : LogCall("a", p)
  \/ \E w \in 1..MaxStarts, o \in StoreOutcomes : WorkerGet(w, o)
  \/ \E o \in StoreOutcomes : Tick(o)

\* SpecLog: the prediction-log pipeline from the construction of the application; the
\* requests whose prediction succeeded reach it as LogCall steps
SpecLog == Init /\ [][NextLog]_vars

----------------------------------------------------------------------------
(* Properties of the cache (Spec) *)

\* the keys in the cache, without their order
Resident(c) == {c[i].key : i \in 1..Len(c)}
\* the resident key whose last use (insertion, predict, load hit) is the oldest
LeastRecentlyUsed(c, f) == {k \in Resident(c) : \A j \in Resident(c) : f[k] <= f[j]}
\* the tasks inside the download and deserialization of load_model
Loading == {t \in Tasks : task[t].pc \in {"downloading", "auto_downloading"}}

\* C1: whatever loads, unloads, predicts and auto-loads have run, the cache holds at most
\* max_models entries.
C1_CacheWithinCapacity == Len(cache) <= max_models

\* a load or auto-load has just evicted an entry and the cache is full again
C1_Witness == Len(cache) = max_models /\ evicted # "none"

\* C2: a step that makes a non-resident key k resident removes, when the cache held
\* max_models entries, exactly one entry, the one whose last use is the oldest, and
\* removes nothing when the cache held fewer.
C2_EvictsLeastRecentlyUsed ==
  [][\A k \in Keys :
       (~InCache(cache, k) /\ InCache(cache', k)) =>
         IF Len(cache) = max_models
           THEN \E v \in LeastRecentlyUsed(cache, last_used_at) :
                  /\ Resident(cache') = (Resident(cache) \ {v}) \cup {k}
                  /\ evicted' = v
           ELSE /\ Resident(cache') = Resident(cache) \cup {k}
                /\ evicted' = "none"]_vars

\* a load answered "loaded" after evicting an entry of a full cache, the entry it spared
\* having requests queued
C2_Witness ==
  /\ ret.op = "load" /\ ret.status = "loaded"
  /\ evicted # "none"
  /\ Len(cache) = max_models
  /\ \E i \in 1..Len(cache) : cache[i].key # ret.key /\ cache[i].proc.queue # <<>>

\* C3 as stated: when a predict has returned a label, its key is the most recently used
\* key of the cache.
C3_ReturnedPredictIsMRU ==
  (ret.op = "predict" /\ ret.status = "ok") =>
    (cache # <<>> /\ cache[Len(cache)].key = ret.key)

\* C3 as the code has it: when a predict has found its key and queued its request, the key
\* is the most recently used key of the cache, whatever the other calls in progress.
C3_PredictIsMRUAtDispatch ==
  [][\A t \in Tasks :
       (task[t].pc # "await" /\ task'[t].pc = "await") =>
         /\ cache' # <<>>
         /\ cache'[Len(cache')].key = task'[t].key
         /\ last_used_at'[task'[t].key] = Len(cache')]_vars

\* two predicts on different keys are in progress, the later one on the most recent key
C3_Witness ==
  \E t, u \in Tasks :
    /\ task[t].pc = "await" /\ task[u].pc = "await"
    /\ future[t].st = "pending"
    /\ task[t].key # task[u].key
    /\ cache # <<>> /\ cache[Len(cache)].key = task[t].key

C5_FailedLoadLeavesCache ==
  [][/\ ( \/ ret'.op = "load" /\ ret'.code # 200
          \/ ret'.op = "predict" /\ ret'.code # 200 /\ ret'.downloads = 1
          \/ ret'.op = "predict" /\ ret'.code # 200 /\ task' = task ) =>
          /\ cache' = cache
          /\ last_used_at' = last_used_at
          /\ orphans' = orphans
          /\ evicted' = "none"
     /\ \A t \in Tasks :
          (t \in Loading /\ task'[t] = task[t]) => CacheKeys(cache') = CacheKeys(cache)]_vars

\* a load failed after its download while the cache was full
C5_Witness ==
  /\ ret.op = "load" /\ ret.code = 500 /\ ret.downloads = 1
  /\ Len(cache) = max_models

\* C6: a load of a resident key is answered "already_loaded"; it moves the key to the end
\* of the order, downloads and evicts nothing, and leaves every entry, the key's own with
\* its BatchProcessor and batch configuration included, as it was.
C6_LoadHitIsTouch ==
  [][/\ \A t \in Tasks :
          (task[t].pc = "load_wait" /\ task'[t].pc # "load_wait"
            /\ InCache(cache, task[t].key)) =>
             (ret'.status = "already_loaded" /\ ret'.key = task[t].key)
     /\ (ret'.op = "load" /\ ret'.status = "already_loaded") =>
          /\ InCache(cache, ret'.key)
          /\ CacheKeys(cache') =
               Append(SelectSeq(CacheKeys(cache), LAMBDA j : j # ret'.key), ret'.key)
          /\ \A j \in Resident(cache) : Entry(cache', j) = Entry(cache, j)
          /\ ret'.downloads = 0
          /\ evicted' = "none"
          /\ orphans' = orphans]_vars

\* a load of a resident key that was not the most recent one, carrying another batch size
\* than the entry's, was answered "already_loaded"
C6_Witness ==
  /\ ret.op = "load" /\ ret.status = "already_loaded"
  /\ Len(cache) = max_models
  /\ ret.cfg.size # Entry(cache, ret.key).proc.max_batch_size
  /\ last_used_at[cache[1].key] = 1
  /\ cache[1].proc.created > 0

\* C7: an unload answers 200; of a resident key it answers "unloaded" and removes that
\* entry only, the others keeping their order and content; of a key that is not resident
\* it answers "not_loaded" and changes nothing; after it the key is not resident.
C7_UnloadRemovesOnlyKey ==
  [][ret'.op = "unload" =>
       /\ ret'.code = 200
       /\ ~InCache(cache', ret'.key)
       /\ IF InCache(cache, ret'.key)
            THEN /\ ret'.status = "unloaded"
                 /\ CacheKeys(cache') = SelectSeq(CacheKeys(cache), LAMBDA j : j # ret'.key)
                 /\ \A j \in Resident(cache') : Entry(cache', j) = Entry(cache, j)
                 /\ ret'.cache_size = Len(cache) - 1
            ELSE /\ ret'.status = "not_loaded"
                 /\ cache' = cache
                 /\ orphans' = orphans
                 /\ last_used_at' = last_used_at]_vars

\* an unload removed the most recent of two entries while requests were queued in the
\* other
C7_Witness ==
  /\ ret.op = "unload" /\ ret.status = "unloaded" /\ ret.cache_size = 1
  /\ Len(cache) = 1
  /\ cache[1].proc.queue # <<>>
  /\ orphans # {}

\* C8: a predict whose key is not in the cache queues nothing and leaves the cache, its
\* order, the recency of its entries and every future as they were.
C8_PredictMissChangesNothing ==
  [][\A k \in Keys :
       ( /\ ~InCache(cache, k)
         /\ \/ \E t \in Tasks : /\ task[t].pc = "idle"
                                /\ task'[t].pc = "auto_downloading"
                                /\ task'[t].key = k
            \/ ret'.op = "predict" /\ ret'.key = k /\ ret'.code = 404 /\ task' = task ) =>
         /\ cache' = cache
         /\ orphans' = orphans
         /\ future' = future
         /\ last_used_at' = last_used_at
         /\ evicted' = "none"]_vars

\* a predict of a key without registry record failed on a full cache with a request queued
C8_Witness ==
  /\ ret.op = "predict" /\ ret.code = 404 /\ ret.downloads = 0
  /\ ret.key \notin Registered
  /\ Len(cache) = max_models
  /\ \E i \in 1..Len(cache) : cache[i].proc.queue # <<>>

----------------------------------------------------------------------------
(* Properties of the BatchProcessor (SpecBatch) *)

\* C9: the label a request receives is int() of what the model returns for the single row
\* made of the request's own features, whatever else was in its batch.
C9_BatchingTransparent ==
  \A t \in Tasks :
    (task[t].pc = "await" /\ future[t].st = "result") =>
      future[t].val = ToInt(ModelPredict(task[t].key, <<task[t].feat>>)[1])

\* two requests with different features were answered by one batch of two rows
C9_Witness ==
  \E t, u \in Tasks :
    /\ task[t].pc = "await" /\ task[u].pc = "await"
    /\ future[t].st = "result" /\ future[u].st = "result"
    /\ future[t].n = 2 /\ future[u].n = 2
    /\ task[t].feat # task[u].feat

\* C10 as stated: a BatchProcessor never has two _process_batch tasks in their wait.
C10_AtMostOneDrainer == \A pr \in AllProcs : pr.sleeping <= 1

----------------------------------------------------------------------------
(* Properties of the batches (SpecFlight) *)

\* C11: a BatchProcessor never has two detached batches that are not completed: between
\* the detach of a batch and the completion of its futures no other batch is detached and
\* model.predict is not called for another one.
C11_OneBatchInFlight == \A pr \in AllProcs : Len(pr.inflight) <= 1

\* a batch is detached while a second _process_batch task of the same BatchProcessor
\* sleeps and a request is still queued
C11_Witness ==
  \E pr \in AllProcs : pr.inflight # <<>> /\ pr.sleeping > 0 /\ pr.queue # <<>>

\* the requests submitted so far (each task submits once), the request tasks whose future
\* is done, and the number of model.predict calls so far: a call on a batch of n rows
\* completes n futures
Submissions == Cardinality({t \in Tasks : task[t].pc = "await"})
Done == {t \in Tasks : future[t].st \in {"result", "exception"}}
RECURSIVE CallsUpTo(_)
CallsUpTo(n) ==
  IF n = 0 THEN 0
  ELSE (Cardinality({t \in Done : future[t].n = n}) \div n) + CallsUpTo(n - 1)
Invocations == CallsUpTo(NumTasks)
\* ceil(a / b)
Ceil(a, b) == (a + b - 1) \div b

\* C12 as stated: when every request submitted to a BatchProcessor has been served, it has
\* called model.predict at most ceil(submissions / max_batch_size) times.
C12_InvocationsWithinBound ==
  \A pr \in AllProcs :
    (Submissions > 0 /\ Done = {t \in Tasks : task[t].pc = "await"}) =>
      Invocations <= Ceil(Submissions, pr.max_batch_size)

\* the places (queue positions, rows of detached batches) that hold the request of task t
Places(t) ==
  UNION { {<<pr, 0, i>> : i \in {j \in 1..Len(pr.queue) : pr.queue[j].future = t}}
          \cup UNION { {<<pr, b, i>> :
                          i \in {j \in 1..Len(pr.inflight[b]) : pr.inflight[b][j].future = t}} :
                        b \in 1..Len(pr.inflight) }
          : pr \in AllProcs }

\* C13: a request whose future is pending sits in exactly one place, the queue or one
\* detached batch; a request whose future is done sits nowhere, so it is in no later
\* batch; and a future that is done is never set again.
C13_CompletedExactlyOnce ==
  [][\A t \in Tasks :
       /\ future'[t].st = "pending" => Cardinality(Places(t)') = 1
       /\ future'[t].st # "pending" => Places(t)' = {}
       /\ task'[t].pc = "await" => future'[t].st \in {"pending", "result", "exception"}
       /\ t \in Done => future'[t] = future[t]]_vars

\* one request is done and the other is in a detached batch while a further
\* _process_batch task of the BatchProcessor exists
C13_Witness ==
  \E t \in Done, pr \in AllProcs :
    /\ pr.inflight # <<>>
    /\ Drainers(pr) >= 1
    /\ \E u \in Tasks : u # t /\ Places(u) # {}

\* C14: when model.predict raises on a batch, every pending future of the batch gets that
\* exception and every other future is left alone; the task ends with the processing flag
\* cleared, no batch detached and, if requests are queued, a successor task to serve them.
C14_FailureFansOut ==
  [][\A pr \in AllProcs :
       (pr.inflight # <<>> /\ \E t \in Tasks : future[t].st = "pending"
                                               /\ future'[t].st = "exception") =>
         LET batch == Head(pr.inflight)
             InBatch == {batch[i].future : i \in 1..Len(batch)}
         IN  /\ \E e \in PredictOutcomes \ {"ok"} :
                   \A t \in Tasks :
                     IF t \in InBatch /\ future[t].st = "pending"
                       THEN future'[t].st = "exception" /\ future'[t].exc = e
                       ELSE future'[t] = future[t]
             /\ \A i \in 1..Len(cache') :
                   cache'[i].proc.model = pr.model =>
                     /\ ~cache'[i].proc.processing
                     /\ cache'[i].proc.inflight = <<>>
                     /\ cache'[i].proc.queue # <<>> => cache'[i].proc.created >= 1]_vars

\* a batch of two requests failed as a whole and the BatchProcessor is idle
C14_Witness ==
  /\ \E t, u \in Done :
       /\ t # u
       /\ future[t].st = "exception" /\ future[u].st = "exception"
       /\ future[t].n = 2 /\ future[u].n = 2
       /\ future[t].exc = future[u].exc
  /\ \A pr \in AllProcs : ~pr.processing /\ pr.inflight = <<>>

----------------------------------------------------------------------------
(* Properties of the handlers and of evictions (Spec) *)

\* C15 as stated: _evict_lru never removes an entry whose BatchProcessor has requests
\* queued.
C15_NoEvictionWhilePending ==
  [][\A i \in 1..Len(cache) :
       evicted' = cache[i].key => cache[i].proc.queue = <<>>]_vars

\* C16 as stated: when an entry is evicted, every request still queued in its
\* BatchProcessor is completed with Shutdown.
C16_EvictionClosesScheduler ==
  [][\A i \in 1..Len(cache) :
       evicted' = cache[i].key =>
         \A j \in 1..Len(cache[i].proc.queue) :
           LET t == cache[i].proc.queue[j].future IN
           future'[t].st = "exception" /\ future'[t].exc = "Shutdown"]_vars

\* C17 as stated: the cache lock is not held while a call downloads or deserializes.
C17_LockNotHeldAcrossDownload == \A t \in Loading : lock # t

C19_AutoLoadErrorIs404 ==
  [][\A t \in Tasks :
       (task[t].pc = "auto_downloading" /\ task'[t].pc = "idle") => ret'.code = 404]_vars

\* C20 as stated: a predict whose batch failed in model.predict is answered 500.
C20_PredictorErrorIs500 ==
  [][\A t \in Tasks :
       (task[t].pc = "await" /\ future[t].st = "exception" /\ task'[t].pc = "idle") =>
          ret'.code = 500]_vars

----------------------------------------------------------------------------
(* Properties of the prediction-log pipeline (SpecLog) *)

\* the entries handed to _flush_batch so far
Handed == UNION {{flushes[i].batch[j] : j \in 1..Len(flushes[i].batch)} : i \in 1..Len(flushes)}
\* the entries in the batch of some worker
Buffered == UNION {{logger.workers[w].batch[j] : j \in 1..Len(logger.workers[w].batch)} :
                     w \in 1..Len(logger.workers)}
\* the entries on the queue
Queued == {logger.queue[j] : j \in 1..Len(logger.queue)}

\* C21 as stated: when stop() returns, every record put on the queue before has been handed
\* to a flush (the logger keeps no count of dropped records).
C21_StopDrainsPipeline == ret.op = "stop" => \A e \in 1..logger.logged : e \in Handed

\* C22 as stated: however often start() was called, at most one worker consumes the queue,
\* and when stop() returns no worker is left running.
C22_StartIdempotent ==
  /\ Cardinality(Alive(logger)) <= 1
  /\ ret.op = "stop" => Alive(logger) = {}


\* the flushes made by the step
NewFlushes == SubSeq(flushes', Len(flushes) + 1, Len(flushes'))
\* what worker w holds once its wait_for has returned in this step: its batch with the entry
\* it got when the queue was not empty, and the seconds since its last flush
BatchAtCheck(w) ==
  logger.workers[w].batch \o (IF logger.queue # <<>> THEN <<Head(logger.queue)>> ELSE <<>>)
SinceAtCheck(w) ==
  IF logger.queue # <<>> THEN logger.workers[w].since
  ELSE IF logger.workers[w].since + timeout >= flush_interval THEN flush_interval
  ELSE logger.workers[w].since + timeout

\* C23: a worker's loop flushes exactly when its buffer has reached batch_size entries or is
\* non-empty with flush_interval seconds passed since its last flush; the flush hands the
\* whole buffer to one bulk insert and empties the buffer; no buffer and no bulk insert
\* exceeds batch_size, and no running worker is left with a buffer that is due.
C23_FlushOnCountOrInterval ==
  /\ [][\A w \in Alive(logger) :
          LET mine == {i \in 1..Len(NewFlushes) : NewFlushes[i].by = w}
              round == logger'.workers[w] # logger.workers[w]
          IN
          (ret'.op # "stop" /\ round) =>
             /\ Cardinality(mine) <= 1
             /\ mine # {} <=>
                  \/ Len(BatchAtCheck(w)) >= batch_size
                  \/ BatchAtCheck(w) # <<>> /\ SinceAtCheck(w) >= flush_interval
             /\ \A i \in mine :
                  /\ NewFlushes[i].batch = BatchAtCheck(w)
                  /\ logger'.workers[w].batch = <<>>
                  /\ logger'.workers[w].since = 0
             /\ mine = {} => logger'.workers[w].batch = BatchAtCheck(w)]_vars
  /\ [](\A w \in Alive(logger) :
          /\ Len(logger.workers[w].batch) < batch_size
          /\ logger.workers[w].batch = <<>> \/ logger.workers[w].since < flush_interval)
  /\ [](\A i \in 1..Len(flushes) : Len(flushes[i].batch) \in 1..batch_size)

\* a running worker has flushed a full buffer and later, on the interval, a shorter one
C23_Witness ==
  /\ ret.op # "stop"
  /\ Len(flushes) >= 2
  /\ \E i \in 1..(Len(flushes) - 1) :
       /\ Len(flushes[i].batch) = batch_size
       /\ flushes[i].by = flushes[Len(flushes)].by
  /\ Len(flushes[Len(flushes)].batch) < batch_size
  /\ flushes[Len(flushes)].by \in Alive(logger)


\* the errors that come from the store
StoreErrors == StoreOutcomes \ {"ok"}

\* C24 as stated, for the records already flushed: a record handed to a flush that the store
\* did not refuse is a row of prediction_logs under its correlation id.
C24_FlushedRecordsAreRows ==
  \A i \in 1..Len(flushes) :
     flushes[i].error \notin StoreErrors =>
        \A j \in 1..Len(flushes[i].batch) : flushes[i].batch[j] \in prediction_logs


\* the entries of flush i
FlushedIn(i) == {flushes[i].batch[j] : j \in 1..Len(flushes[i].batch)}
\* the flushes whose bulk insert failed
Failed == {i \in 1..Len(flushes) : flushes[i].error # "none"}

\* C25: the records of a buffer whose bulk insert failed are discarded: they are in no
\* buffer, not on the queue, not in the table and in no other flush; the worker whose
\* insert failed in its loop keeps running, with an empty buffer.
C25_FailedFlushIsDiscarded ==
  /\ [](\A i \in Failed :
          /\ FlushedIn(i) \cap (Buffered \cup Queued \cup prediction_logs) = {}
          /\ \A j \in 1..Len(flushes) : j # i => FlushedIn(i) \cap FlushedIn(j) = {})
  /\ [][\A i \in 1..Len(NewFlushes) :
          (NewFlushes[i].error # "none" /\ ret'.op # "stop") =>
             /\ NewFlushes[i].by \in Alive(logger')
             /\ logger'.workers[NewFlushes[i].by].batch = <<>>]_vars

\* a worker whose insert failed has since collected and flushed a later record
C25_Witness ==
  \E i \in Failed : \E j \in 1..Len(flushes) :
     /\ i < j
     /\ flushes[j].by = flushes[i].by
     /\ \A e \in FlushedIn(i) : \A g \in FlushedIn(j) : e < g
     /\ \E w \in Alive(logger) : w = flushes[i].by /\ logger.workers[w].batch # <<>>


\* C26 as stated: the queue has a capacity below the number of records submitted, so the
\* MaxLogs records of a burst are never all on the queue at once.
C26_QueueBounded == Len(logger.queue) < MaxLogs


\* C27: a log() call never suspends and never raises: whatever the workers and the store
\* have done, the step of a request whose prediction succeeded puts its entry on the queue
\* and answers 200 with the prediction, and no other step of the pipeline answers a predict
\* request.
C27_LogNeverBlocksOrFails ==
  /\ [](logger.putters = <<>>)
  /\ [][logger'.logged # logger.logged =>
          /\ logger'.queue = Append(logger.queue, logger'.logged)
          /\ ret'.op = "predict" /\ ret'.status = "ok" /\ ret'.code = 200
          /\ ret'.prediction \in Features]_vars
  /\ [](ret.op = "predict" => ret.code = 200)

\* a request is answered 200 after a flush has failed and the worker has been stopped
C27_Witness ==
  /\ ret.op = "predict" /\ ret.code = 200
  /\ Failed # {}
  /\ logger.workers # <<>> /\ Alive(logger) = {}


----------------------------------------------------------------------------
(* Properties of the responses of load and unload (Spec) *)

\* C28 as stated: every 200 response of load and of unload carries cache_size, the number of
\* resident entries after the operation.
C28_ResponsesCarryCacheSize ==
  (ret.op \in {"load", "unload"} /\ ret.code = 200) => ret.cache_size = Len(cache)

----------------------------------------------------------------------------
(* Properties of the _process_batch tasks (SpecFlight) *)

\* the BatchProcessor of the resident model before and after a step
Proc == cache[1].proc
ProcAfter == cache'[1].proc
\* the request tasks whose futures are in batch b
FuturesOf(b) == {b[i].future : i \in 1..Len(b)}

\* C29: a _process_batch task that wakes on a non-empty queue detaches, in one step, the
\* min(len(queue), max_batch_size) oldest entries in queue order and leaves the rest queued;
\* it then calls model.predict once, on that batch, completing exactly the futures of the
\* batch; a task that wakes on an empty queue detaches nothing and completes nothing; no
\* batch is longer than max_batch_size.
C29_DrainerDetachesOldest ==
  /\ [][/\ ProcAfter.sleeping < Proc.sleeping =>
             LET n == IF Len(Proc.queue) <= Proc.max_batch_size THEN Len(Proc.queue)
                      ELSE Proc.max_batch_size
             IN
             /\ future' = future
             /\ ProcAfter.queue = SubSeq(Proc.queue, n + 1, Len(Proc.queue))
             /\ ProcAfter.inflight =
                  IF Proc.queue = <<>> THEN Proc.inflight
                  ELSE Append(Proc.inflight, SubSeq(Proc.queue, 1, n))
        /\ Len(ProcAfter.inflight) < Len(Proc.inflight) =>
             /\ ProcAfter.inflight = Tail(Proc.inflight)
             /\ ProcAfter.queue = Proc.queue
             /\ Invocations' = Invocations + 1
             /\ \A t \in Tasks :
                  IF t \in FuturesOf(Head(Proc.inflight))
                    THEN /\ future[t].st = "pending"
                         /\ future'[t].st \in {"result", "exception"}
                         /\ future'[t].n = Len(Head(Proc.inflight))
                    ELSE future'[t] = future[t]]_vars
  /\ [](\A b \in 1..Len(Proc.inflight) : Len(Proc.inflight[b]) \in 1..Proc.max_batch_size)

\* a task has detached a full batch and left a younger request on the queue
C29_Witness ==
  /\ Proc.inflight # <<>>
  /\ Len(Head(Proc.inflight)) = Proc.max_batch_size
  /\ Proc.queue # <<>>

\* C30 as stated: when a _process_batch task ends after its batch and requests are still
\* queued, the processing flag is still set.
C30_FlagHeldWhileQueued ==
  [][(Len(ProcAfter.inflight) < Len(Proc.inflight) /\ ProcAfter.queue # <<>>) =>
        ProcAfter.processing]_vars


\* C31 as stated: when a _process_batch task ends its batch with requests still queued,
\* they are served without a further wait: the next batch is detached at once, by no task
\* that first sleeps max_wait_ms.
C31_NoSecondWait ==
  [][(Len(ProcAfter.inflight) < Len(Proc.inflight) /\ Proc.queue # <<>>) =>
        /\ ProcAfter.created = Proc.created
        /\ ProcAfter.queue = SubSeq(Proc.queue, BatchSize(Proc) + 1, Len(Proc.queue))
        /\ ProcAfter.inflight = Append(Tail(Proc.inflight), Batch(Proc))]_vars


----------------------------------------------------------------------------
(* SpecCancel: SpecFlight with submitters that abandon their call *)

\* the future of an abandoned call
CancelledFuture == [st |-> "cancelled", val |-> 0, exc |-> "none", n |-> 0]

\* the request task of t is cancelled at `result = await future`: the cancellation cancels
\* the future it awaits, whose entry stays where it is, and the handler ends
Cancel(t) ==
  /\ task[t].pc = "await"
  /\ future[t].st = "pending"
  /\ future' = [future EXCEPT ![t] = CancelledFuture]
  /\ task' = [task EXCEPT ![t].pc = "cancelled"]
  /\ ret' = NoRet
  /\ evicted' = "none"
  /\ UNCHANGED <<cache, orphans, lock, last_used_at>>
  /\ UNCHANGED logvars

NextCancel ==
  \/ \E t \in Tasks, f \in Features : LoopFree /\ Predict(t, "a", f)
  \/ \E t \in Tasks : LoopFree /\ Cancel(t)
  \/ \E pr \in AllProcs : LoopFree /\ DrainerStart(pr)
  \/ \E pr \in AllProcs : LoopFree /\ DrainerDetach(pr)
  \/ \E pr \in AllProcs, o \in PredictOutcomes : DrainerComplete(pr, o)

SpecCancel == InitBatch /\ [][NextCancel]_vars

\* C32: a _process_batch task that completes a batch holding the slot of an abandoned call
\* leaves that slot as it is and reaches its end; every other slot of the batch is completed,
\* a result being the label of the slot's own row.
C32_CancelledSlotIsSkipped ==
  [][Len(ProcAfter.inflight) < Len(Proc.inflight) =>
       /\ ProcAfter.inflight = Tail(Proc.inflight)
       /\ ~ProcAfter.processing
       /\ \A t \in Tasks :
            IF t \notin FuturesOf(Head(Proc.inflight)) \/ future[t].st = "cancelled"
              THEN future'[t] = future[t]
              ELSE /\ future'[t].st \in {"result", "exception"}
                   /\ future'[t].st = "result" =>
                        future'[t].val = ToInt(Class(Proc.model, task[t].feat))]_vars

\* a batch of two rows with different features has been served, one of its two calls
\* abandoned, the other answered with a label
C32_Witness ==
  \E t \in Tasks, u \in Tasks :
     /\ future[t].st = "cancelled" /\ Places(t) = {}
     /\ future[u].st = "result" /\ future[u].n = 2
     /\ task[t].feat # task[u].feat


----------------------------------------------------------------------------
(* Further properties of the cache (Spec) *)

\* k is the newest key of cache c2, and the other keys of c2 stand in the order they had in c
MovedToEnd(c, c2, k) ==
  /\ c2 # <<>>
  /\ c2[Len(c2)].key = k
  /\ CacheKeys(Without(c2, k)) =
       SelectSeq(CacheKeys(c), LAMBDA j : j # k /\ InCache(c2, j))

\* C33: a predict that finds its key (directly or after its auto-load) and a load answered
\* "loaded" or "already_loaded" leave the key resident and most recently used, at the step
\* of the call itself, with the other resident keys in the order they had before.
C33_RecencyAtCallTime ==
  [][/\ \A t \in Tasks :
          (task[t].pc \in {"idle", "auto_downloading"} /\ task'[t].pc = "await") =>
             /\ MovedToEnd(cache, cache', task'[t].key)
             /\ last_used_at'[task'[t].key] = Len(cache')
     /\ (ret'.op = "load" /\ ret'.status \in {"loaded", "already_loaded"}) =>
             /\ MovedToEnd(cache, cache', ret'.key)
             /\ last_used_at'[ret'.key] = Len(cache')]_vars

\* a load has put its key behind the entry that stayed, after evicting the oldest one
C33_Witness ==
  /\ ret.op = "load" /\ ret.status = "loaded"
  /\ evicted # "none"
  /\ Len(cache) = max_models
  /\ cache[Len(cache)].key = ret.key
  /\ last_used_at[cache[1].key] = 1


\* the step completes a future with an exception of model.predict
BatchFails == \E t \in Tasks : future[t].st = "pending" /\ future'[t].st = "exception"
\* the step answers a predict request whose future holds an exception
FailureReturns ==
  \E t \in Tasks :
     task[t].pc = "await" /\ future[t].st = "exception" /\ task'[t].pc = "idle"

\* C34: a batch in which model.predict raises, and the answer of a request of such a batch,
\* remove no entry: the resident keys, their order, their recency and the model and batch
\* configuration of each entry's BatchProcessor are as before, so a later predict on the key
\* is queued in the same BatchProcessor.
C34_PredictorFailureKeepsEntry ==
  [][(BatchFails \/ FailureReturns) =>
       /\ CacheKeys(cache') = CacheKeys(cache)
       /\ last_used_at' = last_used_at
       /\ evicted' = "none"
       /\ \A i \in 1..Len(cache) :
            /\ cache'[i].proc.model = cache[i].proc.model
            /\ cache'[i].proc.max_batch_size = cache[i].proc.max_batch_size
            /\ cache'[i].proc.max_wait_ms = cache[i].proc.max_wait_ms
       /\ FailureReturns => cache' = cache]_vars

\* after a batch of a resident key failed, a request on that key submitted since then is
\* queued in the entry's BatchProcessor (which takes a whole queue into one batch)
C34_Witness ==
  \E t \in Tasks, u \in Tasks :
     /\ future[t].st = "exception"
     /\ task[u].pc = "await" /\ future[u].st = "pending"
     /\ task[u].key = task[t].key
     /\ InCache(cache, task[t].key)
     /\ Entry(cache, task[t].key).proc.max_batch_size = DEFAULT_BATCH_SIZE
     /\ \E i \in 1..Len(Entry(cache, task[t].key).proc.queue) :
          Entry(cache, task[t].key).proc.queue[i].future = u


----------------------------------------------------------------------------
(* Further properties of the prediction-log pipeline (SpecLog) *)

\* C35: with one worker started, the records go to the bulk inserts in the order log()
\* enqueued them: a record enqueued before another is in the same or an earlier flush and
\* stands before it inside a shared one; every flush, a failed one included, holds a
\* contiguous run of that order; the records not yet flushed are younger than the flushed.
C35_FlushedInSubmissionOrder ==
  Len(logger.workers) <= 1 =>
    /\ \A i \in 1..Len(flushes), i2 \in 1..Len(flushes) :
         \A j \in 1..Len(flushes[i].batch), j2 \in 1..Len(flushes[i2].batch) :
            (i < i2 \/ (i = i2 /\ j < j2)) => flushes[i].batch[j] < flushes[i2].batch[j2]
    /\ \A i \in 1..Len(flushes) : \A j \in 1..(Len(flushes[i].batch) - 1) :
         flushes[i].batch[j + 1] = flushes[i].batch[j] + 1
    /\ \A e \in Handed : \A g \in Buffered \cup Queued : e < g

\* the one worker has flushed a full buffer and then a younger record
C35_Witness ==
  /\ Len(logger.workers) = 1
  /\ Alive(logger) = {1}
  /\ Len(flushes) >= 2
  /\ Len(flushes[1].batch) = batch_size
  /\ Failed # {}


----------------------------------------------------------------------------
(* SpecFlightLive: SpecFlight on an event loop that runs every task that is ready and *)
(* fires every timer: a created _process_batch task starts, a sleeping one wakes, and  *)
(* a task with its batch detached goes on to its end.                                  *)

SpecFlightLive ==
  /\ InitBatch
  /\ [][NextFlight]_vars
  /\ WF_vars(\E pr \in AllProcs : LoopFree /\ DrainerStart(pr))
  /\ WF_vars(\E pr \in AllProcs : LoopFree /\ DrainerDetach(pr))
  /\ WF_vars(\E pr \in AllProcs, o \in PredictOutcomes : DrainerComplete(pr, o))

\* C36: a BatchProcessor with requests queued always has a _process_batch task created,
\* sleeping or running its batch, and every request whose future is pending is eventually
\* completed with a result or an exception.
C36_NoSubmitWaitsForever ==
  /\ [](\A pr \in AllProcs : pr.queue # <<>> => (Drainers(pr) > 0 \/ pr.inflight # <<>>))
  /\ \A t \in Tasks :
       (future[t].st = "pending") ~> (future[t].st \in {"result", "exception"})

\* every request has been completed, in batches of one row by a BatchProcessor of
\* max_batch_size 1
C36_Witness ==
  /\ \A t \in Tasks : future[t].st \in {"result", "exception"} /\ future[t].n = 1
  /\ Proc.max_batch_size = 1
  /\ Proc.queue = <<>> /\ Drainers(Proc) = 0


\* the BatchProcessor objects in whose queue the request of task t sits
QueuedIn(t) == {pr \in AllProcs : \E i \in 1..Len(pr.queue) : pr.queue[i].future = t}

\* C37: a request whose future is pending sits in the queue of exactly one BatchProcessor,
\* in the cache or removed from it, that has a _process_batch task to serve it; a step that
\* removes an entry changes no pending future; and a request is completed, when model.predict
\* returns, with the label the model of its own key gives for its row, so also when its
\* BatchProcessor has left the cache and the key is resident again in a new one.
C37_RemovalKeepsQueuedRequests ==
  /\ [](\A t \in Tasks :
          future[t].st = "pending" =>
             /\ Cardinality(QueuedIn(t)) = 1
             /\ \A pr \in QueuedIn(t) : pr.model = task[t].key /\ Drainers(pr) > 0)
  /\ [][/\ (\E k \in Keys : InCache(cache, k) /\ ~InCache(cache', k)) =>
             \A t \in Tasks : future[t].st = "pending" => future'[t] = future[t]
        /\ \A t \in Tasks :
             (future[t].st = "pending" /\ future'[t].st = "result") =>
                future'[t].val = ToInt(Class(task[t].key, task[t].feat))]_vars

\* a request is queued in a BatchProcessor that has left the cache, and its key is resident
\* again with a new BatchProcessor
C37_Witness ==
  \E pr \in orphans, t \in Tasks :
     /\ pr \in QueuedIn(t)
     /\ future[t].st = "pending"
     /\ InCache(cache, pr.model)
     /\ Entry(cache, pr.model).proc # pr


\* the places of a request task inside the body of load_model, a synchronous function
InLoadModel == {"downloading", "auto_downloading"}

\* C38: the cache lock is held only by a task inside the synchronous body of load_model,
\* never by a task that awaits its future or has returned; that task can always go on to
\* the end of load_model, and it releases the lock however load_model ends, so a load,
\* unload or predict waiting for the lock is never blocked for good.
C38_LockNeverHeldAcrossAwait ==
  /\ [](lock # 0 =>
          /\ task[lock].pc \in InLoadModel
          /\ ENABLED (\E o \in LoadOutcomes : LoadFinish(lock, o) \/ AutoLoadFinish(lock, o)))
  /\ [](\A t \in Tasks : task[t].pc \notin InLoadModel => lock # t)
  /\ [][\A t \in Tasks :
          (task[t].pc \in InLoadModel /\ task'[t].pc \notin InLoadModel) => lock' = 0]_vars

\* a load has ended in an error and the lock is free, with a prediction pending
C38_Witness ==
  /\ ret.op = "load" /\ ret.code = 500
  /\ lock = 0
  /\ \E t \in Tasks : task[t].pc = "await" /\ future[t].st = "pending"

====
